---- MODULE Spec2Model ----
(***************************************************************************)
(* Model of joybus-pio-rs (src/src/lib.rs): the controller side of the     *)
(* GameCube joybus protocol on the RP2040 PIO.                             *)
(*                                                                         *)
(* Three parties take steps:                                               *)
(*   - the PIO state machine running raw_program (addresses 0..22),        *)
(*   - the host code of GamecubeController (try_new, wait_for_poll_start,  *)
(*     respond_to_poll, recv, send, restart_sm_for_read/_write), one step  *)
(*     per hardware access or delay,                                       *)
(*   - the console, which clocks command bytes onto the data line.         *)
(*                                                                         *)
(* Time is abstracted into an order of steps (section "scheduling"):       *)
(*   - a host step that is neither a delay nor a poll that finds nothing   *)
(*     is taken before the engine's next instruction;                      *)
(*   - in read mode the engine is fast with respect to the console's bit   *)
(*     phases, and the [19] delay of "wait 0 pin" carries the sample of    *)
(*     "in pins, 1" past the 1 us low phase of a bit;                      *)
(*   - the caller's calls and the ends of the host's delays fall between   *)
(*     the console's bytes, and the console does not start a byte while    *)
(*     the engine holds the pin as an output;                              *)
(*   - a tick of the receive timeout is long with respect to a frame: the  *)
(*     timer advances only while the engine waits.                         *)
(***************************************************************************)
EXTENDS Integers, Sequences, FiniteSets, TLC

\* ------------------------------------------------------------------ bounds
\* Number of bytes the console clocks onto the line in one behaviour.
MaxConsoleBytes == 2
\* Number of calls the caller makes on the public interface in one behaviour.
MaxCalls == 2
\* Receive timeout, in timer ticks (the source uses 2000000).
TimeoutTicks == 1
\* Depth of the RX and of the TX FIFO of a PIO state machine.
FifoDepth == 4

\* Command bytes the console may send: Probe, Poll, Origin, Recalibrate,
\* Reset and one unrecognised value (0x77).
ConsoleBytes == {0, 64, 65, 66, 255, 119}

VARIABLES
  \* --- PIO state machine
  pc,        \* program counter, 0..22
  isr,       \* input shift register (value of the bits shifted in so far)
  isrCount,  \* input shift counter
  osr,       \* output shift register, 32 bits, most significant first
  osrCount,  \* output shift counter (32 = empty)
  x,         \* scratch register X
  pindir,    \* "in" or "out"
  pinout,    \* output latch of the data pin
  rx,        \* RX FIFO (engine -> host)
  tx,        \* TX FIFO (host -> engine)
  lineOut,   \* what the engine has driven on the line in the running write burst
  osrFresh,  \* the OSR was loaded from the TX FIFO after the last sm.restart()
  xFresh,    \* X was shifted out of an OSR that was fresh
  \* --- host
  session,   \* "transport": the caller owns a JoybusPio; "controller": a GamecubeController
  op,        \* public function the caller called last
  stack,     \* the host's remaining steps (continuation), head first
  recvd,     \* return value of the last recv: <<>> is None, <<b>> is Some(b)
  cmd,       \* command the running dispatch matched
  values,    \* payload handed to send
  idx,       \* position of send's loop in values (1-based)
  elapsed,   \* timer ticks since recv read its start instant
  evLog,     \* what the host did in the running dispatch
  txLog,     \* words written to the TX FIFO in the running dispatch
  nCalls,    \* calls made so far
  input,     \* the snapshot respond_to_poll was called with: <<>> or <<snapshot>>
  prevCmd,   \* how the dispatch that ended last went: "Unknown", "None" or "reply"
  \* --- console
  conBits,   \* bits of the running byte not yet completed (head = current)
  conPhase,  \* "idle", "low", "val", "high"
  nBytes     \* bytes started so far

engineVars == <<pc, isr, isrCount, osr, osrCount, x, pindir, pinout, lineOut, osrFresh, xFresh>>
fifoVars == <<rx, tx>>
hostVars ==
  <<session, op, stack, recvd, cmd, values, idx, elapsed, evLog, txLog, nCalls, input,
    prevCmd>>
consoleVars == <<conBits, conPhase, nBytes>>
vars == <<engineVars, fifoVars, hostVars, consoleVars>>

\* ------------------------------------------------------------- arithmetic
RECURSIVE BitOr(_, _)
\* u8 | u8
BitOr(a, b) ==
  IF a = 0 THEN b
  ELSE IF b = 0 THEN a
  ELSE (IF a % 2 = 1 \/ b % 2 = 1 THEN 1 ELSE 0) + 2 * BitOr(a \div 2, b \div 2)

\* The 8 bits of a byte, most significant first.
Bits8(b) == [i \in 1..8 |-> (b \div (2 ^ (8 - i))) % 2]

\* A u32 as 32 bits, most significant first (v < 2^31).
U32(v) == [i \in 1..32 |-> IF i = 1 THEN 0 ELSE (v \div (2 ^ (32 - i))) % 2]

\* u32 << n
Shl32(w, n) == [i \in 1..32 |-> IF i + n <= 32 THEN w[i + n] ELSE 0]

\* u32 | u32
Or32(a, b) == [i \in 1..32 |-> IF a[i] = 1 \/ b[i] = 1 THEN 1 ELSE 0]

Zero32 == [i \in 1..32 |-> 0]

\* ------------------------------------------------------- program constants
\* pull_threshold(9): 8 data bits and the final-byte flag
PullThreshold == 9
\* push_threshold(8)
PushThreshold == 8
\* Scratch register Y is never written by the program: it keeps its reset value.
y == 0

\* ---------------------------------------------------------- pure functions
\* GamecubeCommand::from without the Recalibrate arm (a variant C8 tells apart).
GamecubeCommand_from_no_recalibrate(value) ==
  CASE value = 0 -> "Probe"
    [] value = 255 -> "Reset"
    [] value = 65 -> "Origin"
    [] value = 64 -> "Poll"
    [] OTHER -> "Unknown"

\* impl GamecubeCommand { fn from(value: u8) }
GamecubeCommand_from(value) ==
  CASE value = 0 -> "Probe"
    [] value = 255 -> "Reset"
    [] value = 65 -> "Origin"
    [] value = 66 -> "Recalibrate"
    [] value = 64 -> "Poll"
    [] OTHER -> "Unknown"

\* create_report with the masks of r_digital and l_digital exchanged.
create_report_shoulders_swapped(in) ==
  LET buttons1 ==
        BitOr(IF in.a THEN 1 ELSE 0,
        BitOr(IF in.b THEN 2 ELSE 0,
        BitOr(IF in.x THEN 4 ELSE 0,
        BitOr(IF in.y THEN 8 ELSE 0,
              IF in.start THEN 16 ELSE 0))))
      buttons2 ==
        BitOr(128,
        BitOr(IF in.dpad_left THEN 1 ELSE 0,
        BitOr(IF in.dpad_right THEN 2 ELSE 0,
        BitOr(IF in.dpad_down THEN 4 ELSE 0,
        BitOr(IF in.dpad_up THEN 8 ELSE 0,
        BitOr(IF in.z THEN 16 ELSE 0,
        BitOr(IF in.r_digital THEN 64 ELSE 0,
              IF in.l_digital THEN 32 ELSE 0)))))))
  IN <<buttons1, buttons2, in.stick_x, in.stick_y, in.cstick_x, in.cstick_y,
       in.l_analog, in.r_analog>>

\* GamecubeInput::create_report
create_report(in) ==
  LET buttons1 ==
        BitOr(IF in.a THEN 1 ELSE 0,
        BitOr(IF in.b THEN 2 ELSE 0,
        BitOr(IF in.x THEN 4 ELSE 0,
        BitOr(IF in.y THEN 8 ELSE 0,
              IF in.start THEN 16 ELSE 0))))
      buttons2 ==
        BitOr(128,
        BitOr(IF in.dpad_left THEN 1 ELSE 0,
        BitOr(IF in.dpad_right THEN 2 ELSE 0,
        BitOr(IF in.dpad_down THEN 4 ELSE 0,
        BitOr(IF in.dpad_up THEN 8 ELSE 0,
        BitOr(IF in.z THEN 16 ELSE 0,
        BitOr(IF in.r_digital THEN 32 ELSE 0,
              IF in.l_digital THEN 64 ELSE 0)))))))
  IN <<buttons1, buttons2, in.stick_x, in.stick_y, in.cstick_x, in.cstick_y,
       in.l_analog, in.r_analog>>

\* send's word with the stop flag on every word (a variant C13 tells apart).
send_word_flag_every(vals, i) ==
  Or32(Shl32(U32(vals[i]), 24), Shl32(U32(1), 23))

\* send: the word written for values[i] (1-based i): value << 24 | stop << 23
send_word(vals, i) ==
  LET stop == IF i - 1 = Len(vals) - 1 THEN 1 ELSE 0
  IN Or32(Shl32(U32(vals[i]), 24), Shl32(U32(stop), 23))

\* A reply to Reset and Probe with another last byte (a variant C4 tells apart).
ProbeReply_other == <<9, 0, 2>>
\* Reply to Reset and Probe, in try_new and in wait_for_poll_start.
ProbeReply == <<9, 0, 3>>
\* Reply to Recalibrate and Origin in try_new.
OriginReplyHandshake == <<0, 128, 128, 128, 128, 128, 0, 0, 0, 0>>
\* The poll loop answering Origin with the handshake's reply (a variant C5
\* tells apart).
OriginReplyPollLoop_as_handshake == <<0, 128, 128, 128, 128, 128, 0, 0, 0, 0>>
\* Reply to Recalibrate and Origin in wait_for_poll_start.
OriginReplyPollLoop == <<0, 1, 128, 128, 128, 128, 0, 0, 0, 0>>
\* A handshake report without the always-set bit (a variant C6 tells apart).
HandshakeReport_bit_clear == <<0, 0, 128, 128, 128, 128, 0, 0>>
\* The report try_new hands to respond_to_poll_raw on Poll.
HandshakeReport == <<0, 128, 128, 128, 128, 128, 0, 0>>

\* A GamecubeInput with every button released, sticks centred, triggers at 0.
NeutralInput ==
  [start |-> FALSE, a |-> FALSE, b |-> FALSE, x |-> FALSE, y |-> FALSE, z |-> FALSE,
   dpad_up |-> FALSE, dpad_down |-> FALSE, dpad_left |-> FALSE, dpad_right |-> FALSE,
   l_digital |-> FALSE, r_digital |-> FALSE,
   stick_x |-> 128, stick_y |-> 128, cstick_x |-> 128, cstick_y |-> 128,
   l_analog |-> 0, r_analog |-> 0]

\* Snapshots the caller passes to respond_to_poll.
Inputs ==
  { [NeutralInput EXCEPT !.a = TRUE],
    [NeutralInput EXCEPT !.start = TRUE, !.z = TRUE, !.l_digital = TRUE,
                         !.stick_x = 0, !.r_analog = 255] }

\* ------------------------------------------------------------------- line
\* Level of the data line: pulled up, low while the console or the engine
\* (with the pin as output) drives it low.
Line ==
  IF conPhase = "low" \/ (conPhase = "val" /\ Head(conBits) = 0) THEN 0
  ELSE IF pindir = "out" /\ pinout = 0 THEN 0
  ELSE 1

Min(a, b) == IF a < b THEN a ELSE b

Top == IF stack = <<>> THEN "" ELSE Head(stack)

\* ------------------------------------------------------------ PIO program
\*  0: set pindirs, 0
pio_set_pindirs_in ==
  /\ pc = 0
  /\ pindir' = "in"
  /\ pc' = 1
  /\ UNCHANGED <<isr, isrCount, osr, osrCount, x, pinout, lineOut, osrFresh, xFresh, fifoVars>>

\*  1: wait 0 pin, 0 [19]
pio_wait_low ==
  /\ pc = 1
  /\ Line = 0
  /\ pc' = 2
  /\ UNCHANGED <<isr, isrCount, osr, osrCount, x, pindir, pinout, lineOut, osrFresh, xFresh, fifoVars>>

\*  2 with the input shift register shifting right: the first sampled bit
\*  ends up least significant.
pio_in_shift_right ==
  /\ pc = 2
  /\ conPhase # "low"
  /\ LET shifted == isr + Line * (2 ^ isrCount)
     IN IF isrCount + 1 >= PushThreshold
        THEN /\ Len(rx) < FifoDepth
             /\ rx' = Append(rx, shifted)
             /\ isr' = 0
             /\ isrCount' = 0
        ELSE /\ isr' = shifted
             /\ isrCount' = isrCount + 1
             /\ rx' = rx
  /\ pc' = 3
  /\ UNCHANGED <<osr, osrCount, x, pindir, pinout, lineOut, osrFresh, xFresh, tx>>

\*  2: in pins, 1   (shift left, autopush at 8 bits)
pio_in ==
  /\ pc = 2
  /\ conPhase # "low"
  /\ LET shifted == isr * 2 + Line
     IN IF isrCount + 1 >= PushThreshold
        THEN /\ Len(rx) < FifoDepth
             /\ rx' = Append(rx, shifted)
             /\ isr' = 0
             /\ isrCount' = 0
        ELSE /\ isr' = shifted
             /\ isrCount' = isrCount + 1
             /\ rx' = rx
  /\ pc' = 3
  /\ UNCHANGED <<osr, osrCount, x, pindir, pinout, lineOut, osrFresh, xFresh, tx>>

\*  3: wait 1 pin, 0
pio_wait_high ==
  /\ pc = 3
  /\ Line = 1
  /\ pc' = 4
  /\ UNCHANGED <<isr, isrCount, osr, osrCount, x, pindir, pinout, lineOut, osrFresh, xFresh, fifoVars>>

\*  4: jmp 1    13: jmp 15    18: jmp 6    22: jmp 0
pio_jmp ==
  /\ pc \in {4, 13, 18, 22}
  /\ pc' = CASE pc = 4 -> 1 [] pc = 13 -> 15 [] pc = 18 -> 6 [] OTHER -> 0
  /\ lineOut' = IF pc = 22 THEN <<>> ELSE lineOut
  /\ UNCHANGED <<isr, isrCount, osr, osrCount, x, pindir, pinout, osrFresh, xFresh, fifoVars>>

\*  5: set pindirs, 1
pio_set_pindirs_out ==
  /\ pc = 5
  /\ pindir' = "out"
  /\ pc' = 6
  /\ UNCHANGED <<isr, isrCount, osr, osrCount, x, pinout, lineOut, osrFresh, xFresh, fifoVars>>

\*  6: set pins, 1    21: set pins, 1 [18] (end of the stop pulse)
pio_set_pins_high ==
  /\ pc \in {6, 21}
  /\ pinout' = 1
  /\ lineOut' = IF pc = 21 THEN Append(lineOut, 2) ELSE lineOut
  /\ pc' = pc + 1
  /\ UNCHANGED <<isr, isrCount, osr, osrCount, x, pindir, osrFresh, xFresh, fifoVars>>

\*  7, 11: pull ifempty block
pio_pull ==
  /\ pc \in {7, 11}
  /\ IF osrCount >= PullThreshold
     THEN /\ tx # <<>>
          /\ osr' = Head(tx)
          /\ tx' = Tail(tx)
          /\ osrCount' = 0
          /\ osrFresh' = TRUE
     ELSE UNCHANGED <<osr, osrCount, tx, osrFresh>>
  /\ pc' = pc + 1
  /\ UNCHANGED <<isr, isrCount, x, pindir, pinout, lineOut, xFresh, rx>>

\*  8, 12: out x, 1   (shift left)
pio_out ==
  /\ pc \in {8, 12}
  /\ x' = osr[1]
  /\ xFresh' = osrFresh
  /\ osr' = Shl32(osr, 1)
  /\ osrCount' = Min(osrCount + 1, 32)
  /\ pc' = pc + 1
  /\ UNCHANGED <<isr, isrCount, pindir, pinout, lineOut, osrFresh, fifoVars>>

\*  9: jmp !osre, 14
pio_jmp_not_osre ==
  /\ pc = 9
  /\ pc' = IF osrCount < PullThreshold THEN 14 ELSE 10
  /\ UNCHANGED <<isr, isrCount, osr, osrCount, x, pindir, pinout, lineOut, osrFresh, xFresh, fifoVars>>

\* 10 with the condition inverted: jmp x == y, 19.
pio_jmp_x_eq_y ==
  /\ pc = 10
  /\ pc' = IF x = y THEN 19 ELSE 11
  /\ UNCHANGED <<isr, isrCount, osr, osrCount, x, pindir, pinout, lineOut, osrFresh, xFresh, fifoVars>>

\* 10: jmp x != y, 19
pio_jmp_x_ne_y ==
  /\ pc = 10
  /\ pc' = IF x # y THEN 19 ELSE 11
  /\ UNCHANGED <<isr, isrCount, osr, osrCount, x, pindir, pinout, lineOut, osrFresh, xFresh, fifoVars>>

\* 14: nop [3]    15: nop [1]    19: nop [4]
pio_nop ==
  /\ pc \in {14, 15, 19}
  /\ pc' = pc + 1
  /\ UNCHANGED <<isr, isrCount, osr, osrCount, x, pindir, pinout, lineOut, osrFresh, xFresh, fifoVars>>

\* 16, 20: set pins, 0 [9]
pio_set_pins_low ==
  /\ pc \in {16, 20}
  /\ pinout' = 0
  /\ pc' = pc + 1
  /\ UNCHANGED <<isr, isrCount, osr, osrCount, x, pindir, lineOut, osrFresh, xFresh, fifoVars>>

\* 17: mov pins, x [18]
pio_mov_pins_x ==
  /\ pc = 17
  /\ pinout' = x
  /\ lineOut' = Append(lineOut, x)
  /\ pc' = 18
  /\ UNCHANGED <<isr, isrCount, osr, osrCount, x, pindir, osrFresh, xFresh, fifoVars>>

\* One instruction of raw_program.
raw_program ==
  /\ \/ pio_set_pindirs_in \/ pio_wait_low \/ pio_in \/ pio_wait_high \/ pio_jmp
     \/ pio_set_pindirs_out \/ pio_set_pins_high \/ pio_pull \/ pio_out
     \/ pio_jmp_not_osre \/ pio_jmp_x_ne_y \/ pio_nop \/ pio_set_pins_low
     \/ pio_mov_pins_x
  /\ UNCHANGED <<hostVars, consoleVars>>

\* The engine can execute its current instruction.
EngineEnabled ==
  CASE pc = 1 -> Line = 0
    [] pc = 2 -> conPhase # "low" /\ (isrCount + 1 >= PushThreshold => Len(rx) < FifoDepth)
    [] pc = 3 -> Line = 1
    [] pc \in {7, 11} -> osrCount >= PullThreshold => tx # <<>>
    [] OTHER -> TRUE

\* ------------------------------------------------------------------- host
\* send restarting for write before it has seen the line high (a variant C12
\* tells apart).
SendSteps_restart_first == <<"rw_clear", "rw_restart", "rw_jmp", "send_wait", "send_push">>
\* The steps of send: wait for the line, restart_sm_for_write, the loop.
SendSteps == <<"send_wait", "rw_clear", "rw_restart", "rw_jmp", "send_push">>
\* The steps of restart_sm_for_read.
RestartReadSteps == <<"rr_clear", "rr_restart">>
\* The steps of restart_sm_for_write.
RestartWriteSteps == <<"rw_clear", "rw_restart", "rw_jmp">>
\* respond_to_poll_raw with one receive instead of two (a variant C2 tells apart).
RespondSteps_one_recv == <<"delay_40", "recv", "delay_4">> \o SendSteps
\* The steps of respond_to_poll_raw.
RespondSteps == <<"delay_40", "recv", "recv", "delay_4">> \o SendSteps

\* A call of a public function starts with empty records of the dispatch.
Call(name, steps) ==
  /\ stack = <<>>
  /\ nCalls < MaxCalls
  /\ nCalls' = nCalls + 1
  /\ op' = name
  /\ stack' = steps
  /\ cmd' = "pending"
  /\ txLog' = <<>>

\* try_new: the forced "jmp 0", then recv and the match on its result.
try_new ==
  /\ session = "transport"
  /\ Call("try_new", <<"recv", "tn_match">>)
  /\ pc' = 0
  /\ evLog' = <<"jmp0">>
  /\ UNCHANGED <<isr, isrCount, osr, osrCount, x, pindir, pinout, lineOut, osrFresh, xFresh,
                 fifoVars,
                 session, recvd, values, idx, elapsed, input, prevCmd,
                 consoleVars>>

\* try_new, arm Reset | Probe: delay_us(4); send(&[9, 0, 3])
tn_probe_steps == <<"delay_4">> \o SendSteps \o <<"tn_ok">>
\* try_new, arm Recalibrate | Origin: delay_us(4); send(&[...])
tn_origin_steps == <<"delay_4">> \o SendSteps \o <<"tn_ok">>
\* try_new, arm Poll: respond_to_poll_raw(timer, &mut delay, &[...])
tn_poll_steps == RespondSteps \o <<"tn_ok">>
\* The Unknown arm of try_new without the restart (a variant C3 tells apart).
tn_unknown_steps_no_restart == <<"delay_130", "tn_ok">>
\* try_new, arm Unknown: delay_us(130); restart_sm_for_read()
tn_unknown_steps == <<"delay_130">> \o RestartReadSteps \o <<"tn_ok">>
\* The None arm of try_new with a flush before the return (a variant C7 tells apart).
tn_none_steps_flushing == <<"rr_clear", "rr_restart", "tn_err">>
\* try_new, arm None: return Err(controller.pio)
tn_none_steps == <<"tn_err">>

\* try_new: match controller.recv(timer).map(GamecubeCommand::from)
tn_match ==
  /\ Top = "tn_match"
  /\ LET c == IF recvd = <<>> THEN "None" ELSE GamecubeCommand_from(recvd[1])
     IN /\ cmd' = c
        /\ CASE c \in {"Reset", "Probe"} ->
                  /\ values' = ProbeReply
                  /\ stack' = tn_probe_steps
             [] c \in {"Recalibrate", "Origin"} ->
                  /\ values' = OriginReplyHandshake
                  /\ stack' = tn_origin_steps
             [] c = "Poll" ->
                  /\ values' = HandshakeReport
                  /\ stack' = tn_poll_steps
             [] c = "Unknown" ->
                  /\ stack' = tn_unknown_steps
                  /\ UNCHANGED values
             [] OTHER ->
                  /\ stack' = tn_none_steps
                  /\ UNCHANGED values
  /\ UNCHANGED <<engineVars, fifoVars, session, op, recvd, idx, elapsed, evLog, txLog,
                 nCalls, input, prevCmd, consoleVars>>

\* What is kept of a dispatch that ends.
Ended(c) == IF c \in {"Unknown", "None", "pending"} THEN c ELSE "reply"

\* A public function returns: the records of its dispatch end with it.
Return(s) ==
  /\ stack' = <<>>
  /\ session' = s
  /\ op' = "none"
  /\ cmd' = "pending"
  /\ recvd' = <<>>
  /\ values' = <<>>
  /\ idx' = 1
  /\ evLog' = <<>>
  /\ txLog' = <<>>
  /\ input' = <<>>
  /\ prevCmd' = Ended(cmd)
  /\ UNCHANGED <<engineVars, fifoVars, elapsed, nCalls, consoleVars>>

\* try_new: Ok(controller)
tn_ok ==
  /\ Top = "tn_ok"
  /\ Return("controller")

\* try_new: None => return Err(controller.pio)
tn_err ==
  /\ Top = "tn_err"
  /\ Return("transport")

\* wait_for_poll_start: the call
wait_for_poll_start ==
  /\ session = "controller"
  /\ Call("wait_for_poll_start", <<"recv", "wp_match">>)
  /\ evLog' = <<>>
  /\ UNCHANGED <<engineVars, fifoVars, session, recvd, values, idx, elapsed, input, prevCmd,
                 consoleVars>>

\* wait_for_poll_start: the end of a match arm, back to the head of the loop
wp_loop ==
  /\ Top = "wp_loop"
  /\ stack' = <<"recv", "wp_match">>
  /\ cmd' = "pending"
  /\ recvd' = <<>>
  /\ values' = <<>>
  /\ idx' = 1
  /\ evLog' = <<>>
  /\ txLog' = <<>>
  /\ prevCmd' = Ended(cmd)
  /\ UNCHANGED <<engineVars, fifoVars, session, op, elapsed, nCalls, input,
                 consoleVars>>

\* wait_for_poll_start, arm Reset | Probe: delay_us(4); send(&[9, 0, 3])
wp_probe_steps == <<"delay_4">> \o SendSteps \o <<"wp_loop">>
\* wait_for_poll_start, arm Recalibrate | Origin: delay_us(4); send(&[...])
wp_origin_steps == <<"delay_4">> \o SendSteps \o <<"wp_loop">>
\* wait_for_poll_start, arm Poll: return
wp_poll_steps == <<"ret">>
\* The Unknown | None arm of wait_for_poll_start answering with a send.
wp_unknown_steps_replying == <<"delay_4">> \o SendSteps \o <<"wp_loop">>
\* The Unknown | None arm of wait_for_poll_start returning to the caller (a
\* variant C1 tells apart).
wp_unknown_steps_returning == <<"delay_130">> \o RestartReadSteps \o <<"ret">>
\* wait_for_poll_start, arm Unknown | None: delay_us(130); restart_sm_for_read()
wp_unknown_steps == <<"delay_130">> \o RestartReadSteps \o <<"wp_loop">>

\* wait_for_poll_start: match self.recv(timer).map(GamecubeCommand::from)
wp_match ==
  /\ Top = "wp_match"
  /\ LET c == IF recvd = <<>> THEN "None" ELSE GamecubeCommand_from(recvd[1])
     IN /\ cmd' = c
        /\ CASE c \in {"Reset", "Probe"} ->
                  /\ values' = ProbeReply
                  /\ stack' = wp_probe_steps
             [] c \in {"Recalibrate", "Origin"} ->
                  /\ values' = OriginReplyPollLoop
                  /\ stack' = wp_origin_steps
             [] c = "Poll" ->
                  /\ stack' = wp_poll_steps
                  /\ UNCHANGED values
             [] OTHER ->
                  /\ stack' = wp_unknown_steps
                  /\ UNCHANGED values
  /\ UNCHANGED <<engineVars, fifoVars, session, op, recvd, idx, elapsed, evLog, txLog,
                 nCalls, input, prevCmd, consoleVars>>

\* wait_for_poll_start, respond_to_poll, restart_sm_for_read and
\* restart_sm_for_write return to the caller.
ret ==
  /\ Top = "ret"
  /\ Return("controller")

\* respond_to_poll: respond_to_poll_raw(timer, delay, &input.create_report())
respond_to_poll ==
  /\ session = "controller"
  /\ Call("respond_to_poll", RespondSteps \o <<"ret">>)
  /\ \E in \in Inputs : input' = <<in>> /\ values' = create_report(in)
  /\ evLog' = <<>>
  /\ UNCHANGED <<engineVars, fifoVars, session, recvd, idx, elapsed, prevCmd,
                 consoleVars>>

\* restart_sm_for_read, called by the caller
restart_sm_for_read ==
  /\ session = "controller"
  /\ Call("restart_sm_for_read", RestartReadSteps \o <<"ret">>)
  /\ evLog' = <<>>
  /\ UNCHANGED <<engineVars, fifoVars, session, recvd, values, idx, elapsed, input, prevCmd,
                 consoleVars>>

\* restart_sm_for_write, called by the caller
restart_sm_for_write ==
  /\ session = "controller"
  /\ Call("restart_sm_for_write", RestartWriteSteps \o <<"ret">>)
  /\ evLog' = <<>>
  /\ UNCHANGED <<engineVars, fifoVars, session, recvd, values, idx, elapsed, input, prevCmd,
                 consoleVars>>

\* delay.delay_us(4), delay.delay_us(40), delay.delay_us(130)
delay_us ==
  /\ Top \in {"delay_4", "delay_40", "delay_130"}
  /\ evLog' = Append(evLog, Top)
  /\ stack' = Tail(stack)
  /\ UNCHANGED <<engineVars, fifoVars, session, op, recvd, cmd, values, idx,
                 elapsed, txLog, nCalls, input, prevCmd,
                 consoleVars>>

\* recv: let instant = timer.get_counter()
recv ==
  /\ Top = "recv"
  /\ elapsed' = 0
  /\ stack' = <<"recv_poll">> \o Tail(stack)
  /\ UNCHANGED <<engineVars, fifoVars, session, op, recvd, cmd, values, idx,
                 evLog, txLog, nCalls, input, prevCmd,
                 consoleVars>>

\* An iteration of recv's loop that gives up as soon as the bound is reached,
\* not when it is exceeded (a variant C11 tells apart).
recv_poll_at_bound ==
  /\ Top = "recv_poll"
  /\ IF rx # <<>>
     THEN /\ recvd' = <<Head(rx) % 256>>
          /\ rx' = Tail(rx)
          /\ evLog' = Append(evLog, "recv_some")
     ELSE /\ elapsed >= TimeoutTicks
          /\ recvd' = <<>>
          /\ rx' = rx
          /\ evLog' = Append(evLog, "recv_none")
  /\ stack' = Tail(stack)
  /\ elapsed' = 0
  /\ UNCHANGED <<engineVars, tx, session, op, cmd, values, idx, txLog, nCalls,
                 input, prevCmd,
                 consoleVars>>

\* recv: one iteration of the loop: match self.pio.rx.read() {
\*   Some(value) => return Some(value as u8),
\*   None => if elapsed ticks > bound { return None } }
recv_poll ==
  /\ Top = "recv_poll"
  /\ IF rx # <<>>
     THEN /\ recvd' = <<Head(rx) % 256>>
          /\ rx' = Tail(rx)
          /\ evLog' = Append(evLog, "recv_some")
     ELSE /\ elapsed > TimeoutTicks
          /\ recvd' = <<>>
          /\ rx' = rx
          /\ evLog' = Append(evLog, "recv_none")
  /\ stack' = Tail(stack)
  /\ elapsed' = 0
  /\ UNCHANGED <<engineVars, tx, session, op, cmd, values, idx, txLog, nCalls,
                 input, prevCmd,
                 consoleVars>>

\* The timer counts while recv polls.
timer_tick ==
  /\ Top = "recv_poll"
  /\ elapsed <= TimeoutTicks
  /\ elapsed' = elapsed + 1
  /\ UNCHANGED <<engineVars, fifoVars, session, op, stack, recvd, cmd, values,
                 idx, evLog, txLog, nCalls, input, prevCmd,
                 consoleVars>>

\* send: while self.pio.data_pin.as_input().is_low().unwrap() {}
send_wait ==
  /\ Top = "send_wait"
  /\ Line = 1
  /\ idx' = 1
  /\ evLog' = Append(evLog, "line_high")
  /\ stack' = Tail(stack)
  /\ UNCHANGED <<engineVars, fifoVars, session, op, recvd, cmd, values, elapsed,
                 txLog, nCalls, input, prevCmd,
                 consoleVars>>

\* self.pio.sm.clear_fifos()
clear_fifos ==
  /\ Top \in {"rr_clear", "rw_clear"}
  /\ rx' = <<>>
  /\ tx' = <<>>
  /\ evLog' = Append(evLog, "clear_fifos")
  /\ stack' = Tail(stack)
  /\ UNCHANGED <<engineVars, session, op, recvd, cmd, values, idx, elapsed,
                 txLog, nCalls, input, prevCmd,
                 consoleVars>>

\* self.pio.sm.restart(): clears the ISR and both shift counters; the program
\* counter, the OSR contents and the scratch registers are kept.
sm_restart ==
  /\ Top \in {"rr_restart", "rw_restart"}
  /\ isr' = 0
  /\ isrCount' = 0
  /\ osrCount' = 32
  /\ osrFresh' = FALSE
  /\ xFresh' = FALSE
  /\ evLog' = Append(evLog, "restart")
  /\ stack' = Tail(stack)
  /\ UNCHANGED <<pc, osr, x, pindir, pinout, lineOut, fifoVars, session, op,
                 recvd, cmd, values, idx, elapsed, txLog, nCalls, input, prevCmd,
                 consoleVars>>

\* self.pio.sm.exec_instruction(JMP always, address 5)
exec_jmp_write ==
  /\ Top = "rw_jmp"
  /\ pc' = 5
  /\ lineOut' = <<>>
  /\ evLog' = Append(evLog, "jmp5")
  /\ stack' = Tail(stack)
  /\ UNCHANGED <<isr, isrCount, osr, osrCount, x, pindir, pinout, osrFresh, xFresh,
                 fifoVars, session, op, recvd, cmd, values, idx, elapsed, txLog, nCalls,
                 input, prevCmd, consoleVars>>

\* send without its wait: a tx.write into a full queue is refused by the
\* hardware and the word is lost.
send_push_no_wait ==
  /\ Top = "send_push"
  /\ IF idx > Len(values)
     THEN /\ stack' = Tail(stack)
          /\ UNCHANGED <<tx, txLog, idx>>
     ELSE /\ IF Len(tx) < FifoDepth
             THEN tx' = Append(tx, send_word(values, idx))
             ELSE tx' = tx
          /\ txLog' = Append(txLog, send_word(values, idx))
          /\ idx' = idx + 1
          /\ stack' = stack
  /\ UNCHANGED <<engineVars, rx, session, op, recvd, cmd, values, elapsed, evLog, nCalls,
                 input, prevCmd, consoleVars>>

\* send: for (i, value) in values.iter().enumerate() { while tx.is_full() {} tx.write(word) }
send_push ==
  /\ Top = "send_push"
  /\ IF idx > Len(values)
     THEN /\ stack' = Tail(stack)
          /\ UNCHANGED <<tx, txLog, idx>>
     ELSE /\ Len(tx) < FifoDepth
          /\ tx' = Append(tx, send_word(values, idx))
          /\ txLog' = Append(txLog, send_word(values, idx))
          /\ idx' = idx + 1
          /\ stack' = stack
  /\ UNCHANGED <<engineVars, rx, session, op, recvd, cmd, values, elapsed, evLog, nCalls,
                 input, prevCmd, consoleVars>>

\* ---------------------------------------------------------------- console
\* The console starts a byte: 8 bits, most significant first, and a stop bit
\* when the byte is the last of its command.
console_start ==
  /\ conPhase = "idle"
  /\ nBytes < MaxConsoleBytes
  /\ nBytes' = nBytes + 1
  /\ pindir = "in"
  /\ \E b \in ConsoleBytes, last \in BOOLEAN :
       conBits' = Bits8(b) \o (IF last THEN <<1>> ELSE <<>>)
  /\ conPhase' = "low"
  /\ UNCHANGED <<engineVars, fifoVars, hostVars>>

\* The console moves through a bit: low for 1 us, the bit's value for 2 us,
\* high for 1 us.
console_bit ==
  /\ conPhase # "idle"
  /\ CASE conPhase = "low" -> conPhase' = "val" /\ conBits' = conBits
       [] conPhase = "val" ->
            IF Len(conBits) = 1
            THEN conPhase' = "idle" /\ conBits' = <<>>
            ELSE conPhase' = "high" /\ conBits' = conBits
       [] OTHER -> conPhase' = "low" /\ conBits' = Tail(conBits)
  /\ UNCHANGED <<engineVars, fifoVars, hostVars, nBytes>>

\* -------------------------------------------------------------- scheduling
\* The host has a step to take that is neither a delay nor a poll that finds
\* nothing: the core runs at the system clock, the engine at a tenth of a
\* microsecond per instruction, so such a step is taken before the engine's
\* next instruction.
HostReady ==
  \/ Top \in {"tn_match", "tn_ok", "tn_err", "wp_loop", "wp_match", "ret", "recv",
             "rr_clear", "rr_restart", "rw_clear", "rw_restart", "rw_jmp"}
  \/ Top = "send_wait" /\ Line = 1
  \/ Top = "send_push" /\ (idx > Len(values) \/ Len(tx) < FifoDepth)
  \/ Top = "recv_poll" /\ (rx # <<>> \/ elapsed > TimeoutTicks)

\* The engine runs whenever the host has nothing ready; in write mode it
\* lets the console finish the byte it is still clocking.
EngineMayStep ==
  /\ ~HostReady
  /\ pc \in 5..22 => conPhase = "idle"

\* The console's bit phases are slow with respect to the engine's read loop.
ConsoleMayStep ==
  /\ ~HostReady
  /\ ~(pc \in 0..4 /\ EngineEnabled)

\* A delay of the host outlasts the byte the console is clocking, and the
\* caller's calls fall between the console's bytes.
BetweenBytes == conPhase = "idle"

\* A tick of the receive timeout is long with respect to a frame: the timer
\* advances when the engine waits (on the pin or on the TX FIFO).
TimerMayStep ==
  /\ ~HostReady
  /\ ~EngineEnabled
  /\ conPhase = "idle"

\* ------------------------------------------------------------------ system
\* JoybusPio::new: the program is installed at origin 0 and the state machine
\* started; both FIFOs and both shift registers are empty.
Init ==
  /\ pc = 0
  /\ isr = 0
  /\ isrCount = 0
  /\ osr = Zero32
  /\ osrCount = 32
  /\ x = 0
  /\ pindir = "in"
  /\ pinout = 0
  /\ rx = <<>>
  /\ tx = <<>>
  /\ lineOut = <<>>
  /\ osrFresh = FALSE
  /\ xFresh = FALSE
  /\ session = "transport"
  /\ op = "none"
  /\ stack = <<>>
  /\ recvd = <<>>
  /\ cmd = "pending"
  /\ values = <<>>
  /\ idx = 1
  /\ elapsed = 0
  /\ evLog = <<>>
  /\ txLog = <<>>
  /\ conBits = <<>>
  /\ conPhase = "idle"
  /\ nCalls = 0
  /\ input = <<>>
  /\ prevCmd = "pending"
  /\ nBytes = 0

Next ==
  \/ EngineMayStep /\ raw_program
  \/ BetweenBytes /\ try_new
  \/ tn_match
  \/ tn_ok
  \/ tn_err
  \/ ret
  \/ BetweenBytes /\ wait_for_poll_start
  \/ wp_loop
  \/ wp_match
  \/ BetweenBytes /\ respond_to_poll
  \/ BetweenBytes /\ restart_sm_for_read
  \/ BetweenBytes /\ restart_sm_for_write
  \/ BetweenBytes /\ delay_us
  \/ recv
  \/ recv_poll
  \/ TimerMayStep /\ timer_tick
  \/ send_wait
  \/ clear_fifos
  \/ sm_restart
  \/ exec_jmp_write
  \/ send_push
  \/ ConsoleMayStep /\ console_start
  \/ ConsoleMayStep /\ console_bit

Spec == Init /\ [][Next]_vars

TypeOK ==
  /\ pc \in 0..22
  /\ isrCount \in 0..7
  /\ osrCount \in 0..32
  /\ Len(rx) <= FifoDepth
  /\ Len(tx) <= FifoDepth

\* -------------------------------------------------------------- properties
\* The word the protocol expects for a byte: the byte in bits 31..24, the
\* final-byte flag in bit 23, zeros below (most significant bit first).
ExpectedWord(byte, flag) ==
  [i \in 1..32 |-> IF i <= 8 THEN (byte \div (2 ^ (8 - i))) % 2
                   ELSE IF i = 9 THEN flag ELSE 0]

Last(seq) == seq[Len(seq)]

\* The two results of a recv.
RecvEvents == {"recv_some", "recv_none"}

\* log is the whole frame of bytes.
FrameSent(log, bytes) ==
  /\ Len(log) = Len(bytes)
  /\ \A i \in 1..Len(log) :
       log[i] = ExpectedWord(bytes[i], IF i = Len(bytes) THEN 1 ELSE 0)

\* log does not outgrow the frame of bytes, and the word pushed last is the
\* word of its position in the frame.
FrameBegun(log, bytes) ==
  /\ Len(log) <= Len(bytes)
  /\ log # <<>> =>
       Last(log) = ExpectedWord(bytes[Len(log)], IF Len(log) = Len(bytes) THEN 1 ELSE 0)

\* log follows pattern, a sequence of sets of events, as far as it goes.
Follows(log, pattern) ==
  /\ Len(log) <= Len(pattern)
  /\ \A i \in 1..Len(log) : log[i] \in pattern[i]

\* The events of respond_to_poll_raw.
RespondPattern ==
  <<{"delay_40"}, RecvEvents, RecvEvents, {"delay_4"},
    {"line_high"}, {"clear_fifos"}, {"restart"}, {"jmp5"}>>

\* What the host does in one send: waits for the line to be high, flushes the
\* FIFOs, restarts the state machine, forces the jump to the write entry.
SendEvents == <<"line_high", "clear_fifos", "restart", "jmp5">>

\* The first event of a dispatch: try_new forces "jmp 0" before it receives.
Prefix == IF op = "try_new" THEN <<"jmp0">> ELSE <<>>

\* The arm of a dispatch is complete: try_new is about to return Ok,
\* wait_for_poll_start is about to loop.
ArmDone == Top \in {"tn_ok", "wp_loop"}

\* C1: wait_for_poll_start returns if and only if the byte it has just
\* received is Poll (0x40), and it has sent nothing in answer to that Poll;
\* after any other receive outcome (another command, an unknown byte, a
\* timeout) it handles the outcome and goes back to receive.
C1_ReturnsOnlyOnPoll ==
  op = "wait_for_poll_start" =>
    /\ stack # <<>>
    /\ cmd = "pending" => stack \in {<<"recv", "wp_match">>, <<"recv_poll", "wp_match">>,
                                      <<"wp_match">>}
    /\ cmd = "Poll" => /\ stack = <<"ret">>
                       /\ recvd = <<64>>
                       /\ evLog = <<"recv_some">>
                       /\ txLog = <<>>
    /\ Top = "ret" => cmd = "Poll"
    /\ cmd \notin {"pending", "Poll"} =>
         /\ cmd \in {"Probe", "Reset", "Origin", "Recalibrate", "Unknown", "None"}
         /\ Last(stack) = "wp_loop"
         /\ recvd # <<64>>

\* C1 witness: wait_for_poll_start has handled a timeout, has received again
\* and is returning on Poll.
C1_Witness ==
  /\ op = "wait_for_poll_start"
  /\ Top = "ret"
  /\ prevCmd = "None"

\* The report the protocol expects for a snapshot, byte by byte.
ExpectedReport(in) ==
  LET bit(v, w) == IF v THEN w ELSE 0
  IN << bit(in.a, 1) + bit(in.b, 2) + bit(in.x, 4) + bit(in.y, 8) + bit(in.start, 16),
        128 + bit(in.dpad_left, 1) + bit(in.dpad_right, 2) + bit(in.dpad_down, 4)
            + bit(in.dpad_up, 8) + bit(in.z, 16) + bit(in.r_digital, 32)
            + bit(in.l_digital, 64),
        in.stick_x, in.stick_y, in.cstick_x, in.cstick_y, in.l_analog, in.r_analog >>

\* The snapshot of the scenario of C2: only a pressed.
ScenarioInput == [NeutralInput EXCEPT !.a = TRUE]

\* C2: respond_to_poll does, in this order and once each: a 40 us delay, two
\* receives whose results are dropped (byte or timeout), a 4 us delay, one
\* send of the 8-byte report built from the snapshot it was given.  For the
\* snapshot with only a pressed the frame is 1, 128, 128, 128, 128, 128, 0, 0.
C2_RespondToPollOrder ==
  op = "respond_to_poll" =>
    /\ Len(input) = 1
    /\ Follows(evLog, RespondPattern)
    /\ FrameBegun(txLog, ExpectedReport(input[1]))
    /\ txLog # <<>> => Len(evLog) = 8
    /\ Top = "ret" =>
         /\ Len(evLog) = 8
         /\ Len(txLog) = 8
         /\ FrameSent(txLog, ExpectedReport(input[1]))
         /\ input[1] = ScenarioInput =>
              FrameSent(txLog, <<1, 128, 128, 128, 128, 128, 0, 0>>)

\* C2 witness: respond_to_poll is returning after the scenario's snapshot;
\* its first receive returned a byte and its second timed out.
C2_Witness ==
  /\ op = "respond_to_poll"
  /\ Top = "ret"
  /\ input = <<ScenarioInput>>
  /\ evLog[2] = "recv_some"
  /\ evLog[3] = "recv_none"

\* C3: on an unrecognised byte (0x77 is one) the controller pushes no word,
\* waits 130 us and restarts the read framing (FIFOs flushed, shift counters
\* cleared, the engine in its read loop with the pin as an input), so that a
\* Poll that arrives afterwards is received; try_new returns Ok on this path.
C3_UnknownRecovery ==
  cmd = "Unknown" =>
    /\ Len(recvd) = 1
    /\ recvd[1] \notin {0, 64, 65, 66, 255}
    /\ txLog = <<>>
    /\ stack # <<>>
    /\ Last(stack) = IF op = "try_new" THEN "tn_ok" ELSE "wp_loop"
    /\ ArmDone =>
         /\ evLog = Prefix \o <<"recv_some", "delay_130", "clear_fifos", "restart">>
         /\ rx = <<>>
         /\ tx = <<>>
         /\ isr = 0
         /\ isrCount = 0
         /\ pc \in 0..4
         /\ pindir = "in"

\* C3 witness: try_new has recovered from an unknown byte and returned Ok;
\* wait_for_poll_start has then received the Poll and is returning.
C3_Witness ==
  /\ prevCmd = "Unknown"
  /\ op = "wait_for_poll_start"
  /\ Top = "ret"
  /\ cmd = "Poll"
  /\ nCalls = 2

\* C4: on Probe (0x00) or Reset (0xFF), in try_new and in
\* wait_for_poll_start, the controller waits 4 us and then sends the frame
\* 9, 0, 3 once, and nothing else.
C4_ProbeReply ==
  cmd \in {"Probe", "Reset"} =>
    /\ recvd \in {<<0>>, <<255>>}
    /\ (cmd = "Probe") = (recvd = <<0>>)
    /\ FrameBegun(txLog, <<9, 0, 3>>)
    /\ txLog # <<>> => evLog = Prefix \o <<"recv_some", "delay_4">> \o SendEvents
    /\ ArmDone =>
         /\ evLog = Prefix \o <<"recv_some", "delay_4">> \o SendEvents
         /\ FrameSent(txLog, <<9, 0, 3>>)

\* C4 witness: wait_for_poll_start has answered a Reset and is about to loop.
C4_Witness ==
  /\ op = "wait_for_poll_start"
  /\ cmd = "Reset"
  /\ Top = "wp_loop"
  /\ Len(txLog) = 3

\* C5: on Origin (0x41) or Recalibrate (0x42) the controller waits 4 us and
\* sends one 10-byte frame: 0, 0x80, 128, 128, 128, 128, 0, 0, 0, 0 in try_new
\* and 0, 1, 128, 128, 128, 128, 0, 0, 0, 0 in wait_for_poll_start.
C5_OriginReply ==
  cmd \in {"Origin", "Recalibrate"} =>
    LET reply == IF op = "try_new"
                 THEN <<0, 128, 128, 128, 128, 128, 0, 0, 0, 0>>
                 ELSE <<0, 1, 128, 128, 128, 128, 0, 0, 0, 0>>
    IN /\ op \in {"try_new", "wait_for_poll_start"}
       /\ recvd \in {<<65>>, <<66>>}
       /\ (cmd = "Origin") = (recvd = <<65>>)
       /\ FrameBegun(txLog, reply)
       /\ txLog # <<>> => evLog = Prefix \o <<"recv_some", "delay_4">> \o SendEvents
       /\ ArmDone =>
            /\ evLog = Prefix \o <<"recv_some", "delay_4">> \o SendEvents
            /\ FrameSent(txLog, reply)

\* C5 witness: wait_for_poll_start has answered a Recalibrate with its 10
\* words and is about to loop.
C5_Witness ==
  /\ op = "wait_for_poll_start"
  /\ cmd = "Recalibrate"
  /\ Top = "wp_loop"
  /\ Len(txLog) = 10

\* C6 as stated: in try_new a Poll is answered at once, with no delay and no
\* further receive between the match and the send, by a report built from the
\* caller's snapshot.
C6_Original ==
  (op = "try_new" /\ cmd = "Poll" /\ Top = "tn_ok") =>
    /\ evLog = <<"jmp0", "recv_some">> \o SendEvents
    /\ Len(input) = 1
    /\ FrameSent(txLog, ExpectedReport(input[1]))

\* C6 as it holds: in try_new a Poll is answered through respond_to_poll_raw,
\* that is after a 40 us delay, two receives whose results are dropped and a
\* 4 us delay, by one send of the fixed report 0, 0x80, 128, 128, 128, 128, 0, 0;
\* try_new is given no snapshot.
C6_HandshakePoll ==
  (op = "try_new" /\ cmd = "Poll") =>
    /\ evLog = <<"jmp0", "recv_some">> => recvd = <<64>>
    /\ input = <<>>
    /\ FrameBegun(txLog, <<0, 128, 128, 128, 128, 128, 0, 0>>)
    /\ Follows(evLog, <<{"jmp0"}, {"recv_some"}>> \o RespondPattern)
    /\ txLog # <<>> => Len(evLog) = 10
    /\ ArmDone =>
         /\ Len(evLog) = 10
         /\ FrameSent(txLog, <<0, 128, 128, 128, 128, 128, 0, 0>>)

\* C6 witness: try_new has answered a Poll and is about to return Ok.
C6_Witness ==
  /\ op = "try_new"
  /\ cmd = "Poll"
  /\ Top = "tn_ok"
  /\ Len(txLog) = 8

\* C7: when the first receive of try_new times out, try_new returns Err with
\* the transport, so that it can be called again; it has sent nothing, has not
\* flushed the FIFOs, has not restarted the state machine and has not put the
\* engine in write mode.
C7_TimeoutErr ==
  /\ (op = "try_new" /\ cmd = "None") =>
       /\ stack = <<"tn_err">>
       /\ recvd = <<>>
       /\ evLog = <<"jmp0", "recv_none">>
       /\ txLog = <<>>
       /\ tx = <<>>
       /\ pc \in 0..4
       /\ pindir = "in"
       /\ session = "transport"
  /\ Top = "tn_err" => (op = "try_new" /\ cmd = "None")
  /\ Top = "tn_ok" => (op = "try_new" /\ cmd \notin {"None", "pending"})
  /\ (op = "none" /\ prevCmd = "None") => session = "transport"

\* C7 witness: try_new has timed out, has been called again with the
\* transport it gave back, and has timed out again.
C7_Witness ==
  /\ op = "try_new"
  /\ Top = "tn_err"
  /\ prevCmd = "None"
  /\ nCalls = 2

\* ---------------------------------------------- classification of a byte
\* A byte of any value is in the RX FIFO when the caller calls try_new (it
\* owns the transport) or wait_for_poll_start (it owns the controller).
InitClassify ==
  /\ pc = 1
  /\ isr = 0
  /\ isrCount = 0
  /\ osr = Zero32
  /\ osrCount = 32
  /\ x = 0
  /\ pindir = "in"
  /\ pinout = 0
  /\ rx \in {<<b>> : b \in 0..255}
  /\ tx = <<>>
  /\ lineOut = <<>>
  /\ osrFresh = FALSE
  /\ xFresh = FALSE
  /\ session \in {"transport", "controller"}
  /\ op = "none"
  /\ stack = <<>>
  /\ recvd = <<>>
  /\ cmd = "pending"
  /\ values = <<>>
  /\ idx = 1
  /\ elapsed = 0
  /\ evLog = <<>>
  /\ txLog = <<>>
  /\ conBits = <<>>
  /\ conPhase = "idle"
  /\ nCalls = 0
  /\ input = <<>>
  /\ prevCmd = "pending"
  /\ nBytes = 0

\* The call, the receive and the match of the byte.
NextClassify ==
  \/ try_new
  \/ wait_for_poll_start
  \/ recv
  \/ recv_poll
  \/ tn_match
  \/ wp_match

SpecClassify == InitClassify /\ [][NextClassify]_vars

\* The command a byte value stands for in the protocol.
ExpectedCommand(b) ==
  IF b = 0 THEN "Probe"
  ELSE IF b = 64 THEN "Poll"
  ELSE IF b = 65 THEN "Origin"
  ELSE IF b = 66 THEN "Recalibrate"
  ELSE IF b = 255 THEN "Reset"
  ELSE "Unknown"

\* C8: the classification of a received byte is total: each of the 256 values
\* is exactly one of Probe (0x00), Poll (0x40), Origin (0x41), Recalibrate
\* (0x42), Reset (0xFF), and Unknown for the 251 others, and the byte selects
\* exactly one response path in try_new and in wait_for_poll_start.
C8_ClassificationTotal ==
  /\ Cardinality({b \in 0..255 : GamecubeCommand_from(b) = "Unknown"}) = 251
  /\ cmd # "pending" =>
       /\ Len(recvd) = 1
       /\ recvd[1] \in 0..255
       /\ cmd = ExpectedCommand(recvd[1])
       /\ stack =
            IF op = "try_new"
            THEN CASE cmd \in {"Probe", "Reset"} -> tn_probe_steps
                   [] cmd \in {"Origin", "Recalibrate"} -> tn_origin_steps
                   [] cmd = "Poll" -> tn_poll_steps
                   [] OTHER -> tn_unknown_steps
            ELSE CASE cmd \in {"Probe", "Reset"} -> wp_probe_steps
                   [] cmd \in {"Origin", "Recalibrate"} -> wp_origin_steps
                   [] cmd = "Poll" -> wp_poll_steps
                   [] OTHER -> wp_unknown_steps
       /\ values =
            CASE cmd \in {"Probe", "Reset"} -> <<9, 0, 3>>
              [] cmd \in {"Origin", "Recalibrate"} ->
                   IF op = "try_new" THEN <<0, 128, 128, 128, 128, 128, 0, 0, 0, 0>>
                   ELSE <<0, 1, 128, 128, 128, 128, 0, 0, 0, 0>>
              [] cmd = "Poll" /\ op = "try_new" -> <<0, 128, 128, 128, 128, 128, 0, 0>>
              [] OTHER -> <<>>

\* C8 witness: wait_for_poll_start has matched the byte 0x42 as Recalibrate.
C8_Witness ==
  /\ op = "wait_for_poll_start"
  /\ recvd = <<66>>
  /\ cmd = "Recalibrate"
  /\ Head(stack) = "delay_4"

\* ------------------------------------------------------ direction switches
\* restart_sm_for_read has just returned to the code that called it.
AfterRestartForRead ==
  /\ evLog # <<>>
  /\ Last(evLog) = "restart"
  /\ Top \in {"tn_ok", "wp_loop", "ret"}

\* restart_sm_for_write has just returned to the code that called it.
AfterRestartForWrite ==
  /\ evLog # <<>>
  /\ Last(evLog) = "jmp5"
  /\ txLog = <<>>

WriteEntryForced == AfterRestartForWrite => pc = 5

\* ------------------------------------------------------------- recv alone
\* The caller, owning the controller, has called recv; the RX FIFO holds the
\* bytes that completed before the call.
InitRecv ==
  /\ pc = 0
  /\ isr = 0
  /\ isrCount = 0
  /\ osr = Zero32
  /\ osrCount = 32
  /\ x = 0
  /\ pindir = "in"
  /\ pinout = 0
  /\ rx \in {<<>>, <<64>>, <<65, 64>>}
  /\ tx = <<>>
  /\ lineOut = <<>>
  /\ osrFresh = FALSE
  /\ xFresh = FALSE
  /\ session = "controller"
  /\ op = "recv"
  /\ stack = <<"recv", "ret">>
  /\ recvd = <<>>
  /\ cmd = "pending"
  /\ values = <<>>
  /\ idx = 1
  /\ elapsed = 0
  /\ evLog = <<>>
  /\ txLog = <<>>
  /\ conBits = <<>>
  /\ conPhase = "idle"
  /\ nCalls = 1
  /\ input = <<>>
  /\ prevCmd = "pending"
  /\ nBytes = 0

\* The read loop of raw_program (addresses 0..4).
read_loop ==
  /\ \/ pio_set_pindirs_in \/ pio_wait_low \/ pio_in \/ pio_wait_high \/ pio_jmp
  /\ UNCHANGED <<hostVars, consoleVars>>

\* recv polls while the timer counts, the engine reads and the console may
\* clock bytes.
NextRecv ==
  \/ EngineMayStep /\ read_loop
  \/ recv
  \/ recv_poll
  \/ timer_tick
  \/ ret
  \/ ConsoleMayStep /\ console_start
  \/ ConsoleMayStep /\ console_bit

\* The timer is hardware and keeps counting; the host keeps executing its loop.
SpecRecv ==
  /\ InitRecv
  /\ [][NextRecv]_vars
  /\ WF_vars(timer_tick)
  /\ WF_vars(recv)
  /\ WF_vars(recv_poll)

\* recv returns in this step.
RecvReturns == Top = "recv_poll" /\ Top' # "recv_poll"

\* C11: a poll of recv that finds the RX FIFO non-empty returns its oldest
\* byte, whatever the timer says; a poll that finds it empty returns None, and
\* only when more than the bound has elapsed since the call; while the bound
\* is not exceeded recv keeps polling, so a byte that arrives in time is
\* returned; and every call of recv returns, whether the console sends or not.
C11_RecvTimeout ==
  /\ [][RecvReturns =>
          IF rx # <<>>
          THEN /\ recvd' = <<Head(rx) % 256>>
               /\ rx' = Tail(rx)
          ELSE /\ recvd' = <<>>
               /\ elapsed > TimeoutTicks
               /\ rx' = rx]_vars
  /\ [](Top = "recv_poll" /\ rx = <<>> /\ elapsed <= TimeoutTicks => ~ENABLED recv_poll)
  /\ [](Top = "recv_poll" /\ (rx # <<>> \/ elapsed > TimeoutTicks) => ENABLED recv_poll)
  /\ (Top = "recv_poll") ~> (Top # "recv_poll")

\* C11 witness: recv has polled an empty RX FIFO until the bound was reached,
\* and the byte the console clocked meanwhile is in the FIFO for the next poll.
C11_Witness ==
  /\ op = "recv"
  /\ Top = "recv_poll"
  /\ elapsed = TimeoutTicks
  /\ nBytes > 0
  /\ Len(rx) = 1

\* ------------------------------------------------------------------- send
\* The host still has the step l to take in the running call.
InStack(l) == \E i \in 1..Len(stack) : stack[i] = l

\* The host has done e in the running dispatch.
InLog(e) == \E i \in 1..Len(evLog) : evLog[i] = e

\* C12: send first spins until it sees the data line high, then calls
\* restart_sm_for_write (flush, restart, jump to the write entry), then pushes
\* the payload: while the send has not seen the line high it has pushed no
\* word and has not flushed, restarted or moved the engine to the write entry.
C12_SendOrder ==
  /\ InStack("send_wait") =>
       /\ txLog = <<>>
       /\ ~InLog("line_high")
       /\ ~InLog("clear_fifos")
       /\ ~InLog("restart")
       /\ ~InLog("jmp5")
  /\ (evLog # <<>> /\ Last(evLog) = "line_high") => (Line = 1 /\ Top = "rw_clear")
  /\ (InStack("send_push") /\ ~InStack("send_wait")) => InLog("line_high")
  /\ txLog # <<>> =>
       /\ Len(evLog) >= 4
       /\ SubSeq(evLog, Len(evLog) - 3, Len(evLog)) = SendEvents
  /\ op # "restart_sm_for_write" =>
       \A i \in 1..Len(evLog) :
          evLog[i] = "jmp5" => (i >= 4 /\ SubSeq(evLog, i - 3, i) = SendEvents)

\* C12 witness: a send has seen the line high, has restarted the engine for
\* write and has pushed five of its ten words, which the engine is clocking out.
C12_Witness ==
  /\ cmd = "Origin"
  /\ Top = "send_push"
  /\ Len(txLog) = 5
  /\ pc \in 6..22
  /\ pindir = "out"

\* ------------------------------------------------------------- send alone
\* Longest payload handed to send.
MaxPayload == 6
\* Longest payload of which every combination of bytes is tried.
MaxFree == 2

\* Bytes of the short payloads.
PayloadBytes == {0, 9, 128, 255}

\* A payload whose bytes all differ: b, b + 37, b + 74, ... (mod 256).
Ramp(b, n) == [i \in 1..n |-> (b + 37 * (i - 1)) % 256]

\* The payloads handed to send: the empty one, every payload of up to MaxFree
\* bytes of PayloadBytes, and ramps of every length up to MaxPayload.
Payloads ==
  UNION {[1..n -> PayloadBytes] : n \in 0..MaxFree}
    \cup {Ramp(b, n) : b \in {0, 200, 255}, n \in 1..MaxPayload}

\* The caller, owning the controller, has called send(values); the engine
\* waits in its read loop and the line is idle.
InitSend ==
  /\ pc = 1
  /\ isr = 0
  /\ isrCount = 0
  /\ osr = Zero32
  /\ osrCount = 32
  /\ x = 0
  /\ pindir = "in"
  /\ pinout = 0
  /\ rx = <<>>
  /\ tx = <<>>
  /\ lineOut = <<>>
  /\ osrFresh = FALSE
  /\ xFresh = FALSE
  /\ session = "controller"
  /\ op = "send"
  /\ stack = SendSteps \o <<"sent">>
  /\ recvd = <<>>
  /\ cmd = "pending"
  /\ values \in Payloads
  /\ idx = 1
  /\ elapsed = 0
  /\ evLog = <<>>
  /\ txLog = <<>>
  /\ conBits = <<>>
  /\ conPhase = "idle"
  /\ nCalls = 1
  /\ input = <<>>
  /\ prevCmd = "pending"
  /\ nBytes = 0

\* send and the engine; the console is silent.
NextSend ==
  \/ EngineMayStep /\ raw_program
  \/ send_wait
  \/ clear_fifos
  \/ sm_restart
  \/ exec_jmp_write
  \/ send_push

\* The engine is clocked and the host keeps executing: a step that can be
\* taken is taken.
SpecSend == InitSend /\ [][NextSend]_vars /\ WF_vars(NextSend)

\* send has left its loop.
SendReturned == Top = "sent"

\* C13: for a payload of n >= 1 bytes send pushes exactly n words; word i is
\* payload byte i in bits 31..24, the final-byte flag in bit 23 and zeros
\* below; the flag is 1 on the last word and 0 on every earlier one.
C13_WordEncoding ==
  (op = "send" /\ values # <<>>) =>
    /\ Len(txLog) = idx - 1
    /\ Len(txLog) <= Len(values)
    /\ \A i \in 1..Len(txLog) :
         /\ txLog[i] = ExpectedWord(values[i], IF i = Len(values) THEN 1 ELSE 0)
         /\ (txLog[i][9] = 1) = (i = Len(values))
    /\ SendReturned =>
         /\ Len(txLog) = Len(values)
         /\ Cardinality({i \in 1..Len(txLog) : txLog[i][9] = 1}) = 1

\* C13 witness: send has pushed the six words of a six-byte payload and has
\* left its loop.
C13_Witness ==
  /\ op = "send"
  /\ SendReturned
  /\ values = <<200, 237, 18, 55, 92, 129>>
  /\ Len(txLog) = 6

\* ------------------------------------------------------------ cancellation
\* Words of a frame are queued or being shifted out by the engine.
FrameInFlight ==
  \/ tx # <<>>
  \/ pc \in 8..22
  \/ pc \in 5..7 /\ osrCount < PullThreshold

\* The host is about to flush the FIFOs or to restart the state machine.
AboutToRestart == Top \in {"rr_clear", "rw_clear", "rr_restart", "rw_restart"}

\* C14 as stated: no operation of the session flushes or restarts the engine
\* while words of a frame handed to send are queued or being shifted out.
C14_Original == AboutToRestart => ~FrameInFlight

\* What does hold: try_new, wait_for_poll_start and respond_to_poll do not
\* flush or restart the engine while words of a frame are queued or being
\* shifted out (the receive timeout outlasts a frame, and a byte is received
\* only after the engine is back in its read loop); it is restart_sm_for_read
\* and restart_sm_for_write, called by the caller, that do.
NoCancelByDispatch ==
  (AboutToRestart /\ op \in {"try_new", "wait_for_poll_start", "respond_to_poll"}) =>
    ~FrameInFlight

\* ------------------------------------------------------- a frame on the line
RECURSIVE LineBits(_)
\* The bits of a payload in the order the line must carry them: byte after
\* byte, each most significant bit first.
LineBits(vals) ==
  IF vals = <<>> THEN <<>> ELSE Bits8(Head(vals)) \o LineBits(Tail(vals))

\* The frame of a payload: its bits and the stop pulse (written 2 in lineOut).
FrameLine(vals) == Append(LineBits(vals), 2)

\* s is the beginning of t.
IsPrefix(s, t) == Len(s) <= Len(t) /\ s = SubSeq(t, 1, Len(s))

\* The engine is in its read loop with the pin switched to input.
BackInReadLoop == pc \in 1..4 /\ pindir = "in"

\* send has returned, the whole frame has been driven and the engine reads.
SendCompleted == SendReturned /\ InLog("jmp5") /\ BackInReadLoop /\ tx = <<>>

\* C15: send of a non-empty payload, also one longer than the TX queue, never
\* has more than FifoDepth words queued, hands the engine every byte once and
\* in payload order (what the engine has driven is always a prefix of the
\* frame of the payload, and the whole frame when it jumps back), and under
\* fair scheduling returns with the engine back in its read loop, pin input,
\* TX queue empty.
C15_SendTerminates ==
  /\ [](values # <<>> =>
          /\ Len(tx) <= FifoDepth
          /\ Len(tx) + (IF pc \in 8..22 \/ (pc \in 5..7 /\ osrCount < PullThreshold) THEN 1 ELSE 0)
               <= Len(txLog)
          /\ IsPrefix(lineOut, FrameLine(values))
          /\ pc = 22 => lineOut = FrameLine(values) /\ SendReturned /\ tx = <<>>
          /\ (InLog("jmp5") /\ pc \in 0..4) => SendReturned /\ tx = <<>>)
  /\ (values # <<>>) ~> SendCompleted
  /\ [](values # <<>> /\ SendCompleted => [](SendCompleted))

\* C15 witness: the engine has driven the whole frame of a six-byte payload,
\* two bytes more than the TX queue holds, and is about to jump back.
C15_Witness ==
  /\ values = <<200, 237, 18, 55, 92, 129>>
  /\ pc = 22
  /\ lineOut = FrameLine(values)
  /\ SendReturned

\* ------------------------------------------------------ create_report alone
\* Positions of the sticks and triggers: centred, at their extremes, and six
\* values that all differ.
Analogs ==
  { <<128, 128, 128, 128, 0, 0>>, <<0, 255, 255, 0, 255, 1>>,
    <<17, 34, 68, 136, 254, 127>> }

\* Every combination of the twelve buttons with each of the analog positions.
Snapshots ==
  { [start |-> b[1], a |-> b[2], b |-> b[3], x |-> b[4], y |-> b[5], z |-> b[6],
     dpad_up |-> b[7], dpad_down |-> b[8], dpad_left |-> b[9], dpad_right |-> b[10],
     l_digital |-> b[11], r_digital |-> b[12],
     stick_x |-> s[1], stick_y |-> s[2], cstick_x |-> s[3], cstick_y |-> s[4],
     l_analog |-> s[5], r_analog |-> s[6]] :
    b \in [1..12 -> BOOLEAN], s \in Analogs }

\* The caller holds a snapshot; nothing else goes on.
InitReport ==
  /\ pc = 1
  /\ isr = 0
  /\ isrCount = 0
  /\ osr = Zero32
  /\ osrCount = 32
  /\ x = 0
  /\ pindir = "in"
  /\ pinout = 0
  /\ rx = <<>>
  /\ tx = <<>>
  /\ lineOut = <<>>
  /\ osrFresh = FALSE
  /\ xFresh = FALSE
  /\ session = "controller"
  /\ op = "none"
  /\ stack = <<>>
  /\ recvd = <<>>
  /\ cmd = "pending"
  /\ values = <<>>
  /\ idx = 1
  /\ elapsed = 0
  /\ evLog = <<>>
  /\ txLog = <<>>
  /\ conBits = <<>>
  /\ conPhase = "idle"
  /\ nCalls = 0
  /\ input \in {<<in>> : in \in Snapshots}
  /\ prevCmd = "pending"
  /\ nBytes = 0

\* input.create_report(): the report becomes the payload; txLog keeps every
\* report made of the snapshot.
encode_report ==
  /\ nCalls < MaxCalls
  /\ nCalls' = nCalls + 1
  /\ op' = "create_report"
  /\ values' = create_report(input[1])
  /\ txLog' = Append(txLog, create_report(input[1]))
  /\ UNCHANGED <<engineVars, fifoVars, session, stack, recvd, cmd, idx, elapsed,
                 evLog, input, prevCmd, consoleVars>>

NextReport == encode_report

SpecReport == InitReport /\ [][NextReport]_vars

\* Bit k (0 = least significant) of a byte is set.
BitSet(v, k) == (v \div (2 ^ k)) % 2 = 1

\* The snapshot read back from the documented positions of a report.
DecodeReport(r) ==
  [start |-> BitSet(r[1], 4), a |-> BitSet(r[1], 0), b |-> BitSet(r[1], 1),
   x |-> BitSet(r[1], 2), y |-> BitSet(r[1], 3), z |-> BitSet(r[2], 4),
   dpad_up |-> BitSet(r[2], 3), dpad_down |-> BitSet(r[2], 2),
   dpad_left |-> BitSet(r[2], 0), dpad_right |-> BitSet(r[2], 1),
   l_digital |-> BitSet(r[2], 6), r_digital |-> BitSet(r[2], 5),
   stick_x |-> r[3], stick_y |-> r[4], cstick_x |-> r[5], cstick_y |-> r[6],
   l_analog |-> r[7], r_analog |-> r[8]]

\* C16: the report of a snapshot has 8 bytes; byte 0 carries A, B, X, Y, Start
\* in bits 0..4 and has bits 5..7 clear; byte 1 has bit 7 set and carries
\* DpadLeft, DpadRight, DpadDown, DpadUp, Z, R-digital, L-digital in bits
\* 0..6; bytes 2..7 are stick_x, stick_y, cstick_x, cstick_y, l_analog,
\* r_analog; reading those positions back gives the snapshot, and every report
\* made of the same snapshot is the same.
C16_ReportLossless ==
  op = "create_report" =>
    LET r == values
        in == input[1]
    IN /\ Len(r) = 8
       /\ \A i \in 1..8 : r[i] \in 0..255
       /\ BitSet(r[1], 0) = in.a /\ BitSet(r[1], 1) = in.b /\ BitSet(r[1], 2) = in.x
       /\ BitSet(r[1], 3) = in.y /\ BitSet(r[1], 4) = in.start
       /\ ~BitSet(r[1], 5) /\ ~BitSet(r[1], 6) /\ ~BitSet(r[1], 7)
       /\ BitSet(r[2], 7)
       /\ BitSet(r[2], 0) = in.dpad_left /\ BitSet(r[2], 1) = in.dpad_right
       /\ BitSet(r[2], 2) = in.dpad_down /\ BitSet(r[2], 3) = in.dpad_up
       /\ BitSet(r[2], 4) = in.z /\ BitSet(r[2], 5) = in.r_digital
       /\ BitSet(r[2], 6) = in.l_digital
       /\ <<r[3], r[4], r[5], r[6], r[7], r[8]>> =
            <<in.stick_x, in.stick_y, in.cstick_x, in.cstick_y, in.l_analog, in.r_analog>>
       /\ DecodeReport(r) = in
       /\ \A i \in 1..Len(txLog) : txLog[i] = r

\* C16 witness: a snapshot with L pressed, R released and all analog values
\* different has been encoded twice.
C16_Witness ==
  /\ op = "create_report"
  /\ Len(txLog) = 2
  /\ input[1].l_digital /\ ~input[1].r_digital /\ input[1].dpad_up /\ input[1].y
  /\ input[1].stick_x = 17
  /\ values[2] = 128 + 64 + 8

\* ------------------------------------------------- the write loop alone
MaxWords == 3

\* Bytes of the words in the TX queue: all zeros, all ones, mixed.
WordBytes == {0, 165, 255}

\* 9-bit words as send lays them out, with either value of the flag.
Words == {ExpectedWord(b, f) : b \in WordBytes, f \in {0, 1}}

\* restart_sm_for_write has run and up to MaxWords words have been written to
\* the TX queue, flagged or not in any position; txLog keeps them.
InitWrite ==
  /\ pc = 5
  /\ isr = 0
  /\ isrCount = 0
  /\ osr = Zero32
  /\ osrCount = 32
  /\ x = 0
  /\ pindir = "in"
  /\ pinout = 0
  /\ rx = <<>>
  /\ tx \in UNION {[1..n -> Words] : n \in 0..MaxWords}
  /\ txLog = tx
  /\ lineOut = <<>>
  /\ osrFresh = FALSE
  /\ xFresh = FALSE
  /\ session = "controller"
  /\ op = "none"
  /\ stack = <<>>
  /\ recvd = <<>>
  /\ cmd = "pending"
  /\ values = <<>>
  /\ idx = 1
  /\ elapsed = 0
  /\ evLog = <<>>
  /\ conBits = <<>>
  /\ conPhase = "idle"
  /\ nCalls = 1
  /\ input = <<>>
  /\ prevCmd = "pending"
  /\ nBytes = 0

\* Only the engine runs.
NextWrite == EngineMayStep /\ raw_program

SpecWrite == InitWrite /\ [][NextWrite]_vars

\* Number of words the engine has pulled, and the last of them.
Pulled == Len(txLog) - Len(tx)

CurWord == txLog[Pulled]

RECURSIVE WordsLine(_)
\* Bits 1..8 of each word of a sequence, in order.
WordsLine(ws) ==
  IF ws = <<>> THEN <<>>
  ELSE [i \in 1..8 |-> Head(ws)[i]] \o WordsLine(Tail(ws))

\* C17: in write mode the engine drives bits 1..8 of each pulled word, most
\* significant first, each as a low phase followed by the value; on the 9th
\* bit it emits the stop pulse (low, then high) and jumps to address 0, where
\* the pin becomes an input, when the bit is 1, and pulls the next word and
\* goes on with its first bit when the bit is 0. It leaves the write loop
\* only through the stop pulse of a flagged word, never inside a byte, and
\* emits no stop pulse after a word whose flag is 0.
C17_WriteLoop ==
  /\ [](pc \in 8..22 => Pulled >= 1)
  /\ [](pc = 17 => /\ osrCount \in 1..8
                   /\ x = CurWord[osrCount]
                   /\ pinout = 0 /\ pindir = "out"
                   /\ Len(lineOut) = 8 * (Pulled - 1) + osrCount - 1)
  /\ [](pc = 10 => osrCount = 9 /\ x = CurWord[9])
  /\ [](pc = 11 => osrCount = 9 /\ CurWord[9] = 0)
  /\ [](pc = 13 => osrCount = 1 /\ x = CurWord[1] /\ txLog[Pulled - 1][9] = 0)
  /\ [](pc \in 19..22 => osrCount = 9 /\ CurWord[9] = 1 /\ pindir = "out")
  /\ [](pc = 21 => pinout = 0)
  /\ [](pc = 22 => pinout = 1)
  /\ [](pc \in 5..22 =>
          /\ IsPrefix(lineOut, Append(WordsLine(SubSeq(txLog, 1, Pulled)), 2))
          /\ (\E i \in 1..Len(lineOut) : lineOut[i] = 2) => pc = 22
          /\ \A i \in 1..(Pulled - 1) : txLog[i][9] = 0)
  /\ [][(pc \in 5..22 /\ pc' \in 0..4) => (pc = 22 /\ pc' = 0)]_vars
  /\ [][(pc = 0 /\ pc' # 0) => (pc' = 1 /\ pindir' = "in")]_vars
  /\ [](pc \in 0..4 => Pulled >= 1 /\ CurWord[9] = 1)

\* C17 witness: after two unflagged words and a flagged one the engine has
\* driven 24 bits and the stop pulse and is about to jump to address 0.
C17_Witness ==
  /\ op = "none"
  /\ pc = 22
  /\ txLog = <<ExpectedWord(165, 0), ExpectedWord(0, 0), ExpectedWord(255, 1)>>
  /\ lineOut = Bits8(165) \o Bits8(0) \o Bits8(255) \o <<2>>

\* --------------------------------------------------- the read loop alone
\* Bytes the console sends after its first one.
LaterBytes == {0, 165}

\* The console starts a byte as in console_start; the first byte after the
\* reset has any of the 256 values.
console_start_any ==
  /\ conPhase = "idle"
  /\ nBytes < MaxConsoleBytes
  /\ nBytes' = nBytes + 1
  /\ pindir = "in"
  /\ \E b \in (IF nBytes = 0 THEN 0..255 ELSE LaterBytes), last \in BOOLEAN :
       conBits' = Bits8(b) \o (IF last THEN <<1>> ELSE <<>>)
  /\ conPhase' = "low"
  /\ UNCHANGED <<engineVars, fifoVars, hostVars>>

\* The state machine has just been reset (input shift register and RX FIFO
\* empty) and the caller, owning the controller, has called recv.
InitRead ==
  /\ pc = 0
  /\ isr = 0
  /\ isrCount = 0
  /\ osr = Zero32
  /\ osrCount = 32
  /\ x = 0
  /\ pindir = "in"
  /\ pinout = 0
  /\ rx = <<>>
  /\ tx = <<>>
  /\ lineOut = <<>>
  /\ osrFresh = FALSE
  /\ xFresh = FALSE
  /\ session = "controller"
  /\ op = "recv"
  /\ stack = <<"recv", "ret">>
  /\ recvd = <<>>
  /\ cmd = "pending"
  /\ values = <<>>
  /\ idx = 1
  /\ elapsed = 0
  /\ evLog = <<>>
  /\ txLog = <<>>
  /\ conBits = <<>>
  /\ conPhase = "idle"
  /\ nCalls = 1
  /\ input = <<>>
  /\ prevCmd = "pending"
  /\ nBytes = 0

\* The console clocks bytes, the engine reads, recv polls.
NextRead ==
  \/ EngineMayStep /\ read_loop
  \/ recv
  \/ recv_poll
  \/ TimerMayStep /\ timer_tick
  \/ ret
  \/ ConsoleMayStep /\ console_start_any
  \/ ConsoleMayStep /\ console_bit

SpecRead == InitRead /\ [][NextRead]_vars

\* The engine has sampled the bit the console is clocking.
HeadSampled == conPhase \in {"val", "high"} /\ pc # 2

\* The bits the console has put on the line that the engine has yet to sample.
PendingBits ==
  IF conPhase = "idle" THEN <<>>
  ELSE IF HeadSampled THEN Tail(conBits) ELSE conBits

\* The bits held in the input shift register, oldest first.
IsrBits == [i \in 1..isrCount |-> (isr \div (2 ^ (isrCount - i))) % 2]

RECURSIVE RxBits(_)
\* The bits of the bytes recv would return from a queue, oldest byte first.
RxBits(q) == IF q = <<>> THEN <<>> ELSE Bits8(Head(q) % 256) \o RxBits(Tail(q))

\* Every bit clocked by the console and not yet returned by recv, in the
\* order of the line.
Stream == RxBits(rx) \o IsrBits \o PendingBits

\* C18: from a reset input shift register the engine samples each bit the
\* console clocks exactly once (no step of the engine or of the timer changes
\* the stream of bits clocked and not yet returned; a byte started by the
\* console adds its bits at the end), pushes one byte per 8 sampled bits with
\* the first sampled bit most significant (the register never holds 8 bits,
\* a pushed word fits 8 bits), and recv returns exactly the first 8 bits of
\* the stream: a byte b clocked most significant bit first is returned as b.
C18_ReadLoop ==
  /\ [](isrCount \in 0..(PushThreshold - 1) /\ isr < 2 ^ isrCount)
  /\ [](\A i \in 1..Len(rx) : rx[i] \in 0..255)
  /\ [][IF conPhase = "idle" /\ conPhase' # "idle"
        THEN Stream' = Stream \o conBits'
        ELSE IF RecvReturns /\ rx # <<>>
        THEN /\ Bits8(recvd'[1]) = SubSeq(Stream, 1, 8)
             /\ Stream' = SubSeq(Stream, 9, Len(Stream))
        ELSE Stream' = Stream]_vars
  /\ [][pc = 2 /\ pc' = 3 =>
          /\ conPhase = "val"
          /\ IF isrCount = 7
             THEN rx' = Append(rx, 2 * isr + Head(conBits)) /\ isrCount' = 0 /\ isr' = 0
             ELSE rx' = rx /\ isrCount' = isrCount + 1 /\ isr' = 2 * isr + Head(conBits)]_vars

\* C18 witness: the console has clocked 0xA6 from the reset state and recv
\* has returned it.
C18_Witness ==
  /\ op = "recv"
  /\ Top = "ret"
  /\ recvd = <<166>>
  /\ nBytes = 1
  /\ isrCount = 0

\* ------------------------------------------------ unsolicited transmission
\* A step of send is ahead in the running dispatch, or behind.
SendAhead ==
  \E l \in {"send_wait", "rw_clear", "rw_restart", "rw_jmp", "send_push"} : InStack(l)

\* The running dispatch has started a send.
SendBegun == InLog("line_high") \/ InLog("jmp5") \/ txLog # <<>>

\* How many times the host has done e in the running dispatch.
CountLog(e) == Cardinality({i \in 1..Len(evLog) : evLog[i] = e})

\* C19: in try_new and in wait_for_poll_start a send happens only in a
\* dispatch that has received a byte and classified it Probe, Reset, Origin,
\* Recalibrate or, in try_new, Poll; the dispatch sends once (one wait for the
\* line, one jump to the write entry, a log of words that is one frame with
\* one flagged word at most); and a dispatch that timed out or classified the
\* byte Unknown has no send behind or ahead: it never forces the write entry,
\* which alone switches the line to output, and queues no word.
C19_NoUnsolicitedSend ==
  op \in {"try_new", "wait_for_poll_start"} =>
    /\ (SendAhead \/ SendBegun) =>
         /\ cmd \in {"Probe", "Reset", "Origin", "Recalibrate", "Poll"}
         /\ cmd = "Poll" => op = "try_new"
         /\ InLog("recv_some")
         /\ evLog[Len(Prefix) + 1] = "recv_some"
    /\ CountLog("line_high") <= 1
    /\ CountLog("jmp5") <= 1
    /\ SendBegun => ~InStack("send_wait")
    /\ Len(txLog) <= Len(values)
    /\ Cardinality({i \in 1..Len(txLog) : txLog[i][9] = 1}) <= 1
    /\ cmd \in {"None", "Unknown", "pending"} =>
         /\ ~SendAhead
         /\ ~SendBegun
         /\ txLog = <<>>
    /\ cmd \in {"None", "Unknown"} => pc # 5

\* C19 witness: wait_for_poll_start has sent the three words of its reply to
\* a Probe, once, and is about to receive again.
C19_Witness ==
  /\ op = "wait_for_poll_start"
  /\ Top = "wp_loop"
  /\ cmd = "Probe"
  /\ CountLog("jmp5") = 1
  /\ Len(txLog) = 3
  /\ prevCmd = "None"

\* ------------------------------------------------------ the empty payload
\* The engine waits in the write loop for a word, the pin an output, and send
\* has returned without ever having queued a flagged word.
ParkedInWriteMode ==
  /\ SendReturned
  /\ pc \in {7, 11}
  /\ pindir = "out"
  /\ tx = <<>>
  /\ osrCount >= PullThreshold
  /\ \A i \in 1..Len(txLog) : txLog[i][9] = 0

\* C20 as stated: whatever the length of the payload, zero included, send
\* does not leave the engine parked in write mode with the pin an output and
\* no flagged word to end the frame.
C20_Original == ~ParkedInWriteMode

\* What does hold of the last-byte index: send evaluates values.len() - 1
\* only inside its loop, hence for a payload of one byte at least.
LastIndexEvaluatedInLoop ==
  (op = "send" /\ Top = "send_push" /\ idx <= Len(values)) => Len(values) - 1 >= 0

\* The engine stays parked once send of the empty payload has returned.
ParkedForEver == [](ParkedInWriteMode => []ParkedInWriteMode)

====
